---- MODULE Spec2Model ----
(***************************************************************************)
(* The font metadata tool of src/main.py: the resolution of a              *)
(* FontToolConfig from the command line (process_font), from the prompts   *)
(* (interactive_mode) or by a direct caller, and update_font_metadata, the *)
(* rewrite of the font's name table.                                       *)
(*                                                                         *)
(* A text (Python str) is a sequence of code points, a byte string a       *)
(* sequence of byte values.  None is Python's None.  A name record is      *)
(* [nameID, platformID, platEncID, langID, string] where string is either  *)
(* the bytes read from the font file or the str stored by setName.         *)
(***************************************************************************)
EXTENDS Integers, Sequences, FiniteSets, TLC

\* Python's None, for the Optional[str] fields and results.
None == <<-1>>

\* The outcome of a str.encode / bytes.decode that raises UnicodeError.
CodecError == <<-2>>

\* Python truthiness of an Optional[str]: neither None nor "".
Truthy(v) == v # None /\ v # <<>>

\* x or y, for Optional[str] x.
OrElse(x, y) == IF Truthy(x) THEN x ELSE y

(***************************************************************************)
(* String literals of the source, as code points.                          *)
(***************************************************************************)
\* "Regular"
REGULAR == <<82, 101, 103, 117, 108, 97, 114>>

\* "UnknownFamily"
UNKNOWN_FAMILY == <<85, 110, 107, 110, 111, 119, 110, 70, 97, 109, 105, 108, 121>>

\* "keep"
KEEP == <<107, 101, 101, 112>>

\* LicenseType: a str Enum, each member represented by its value.
\* "OFL", "Apache", "MIT", "Custom"
OFL == <<79, 70, 76>>

Apache == <<65, 112, 97, 99, 104, 101>>

MIT == <<77, 73, 84>>

Custom == <<67, 117, 115, 116, 111, 109>>

LicenseType == {OFL, Apache, MIT, Custom}

\* "This Font Software is licensed under the SIL Open Font License, Version 1.1."
OFL_TEXT ==
  <<84, 104, 105, 115, 32, 70, 111, 110, 116, 32, 83, 111, 102, 116, 119, 97,
    114, 101, 32, 105, 115, 32, 108, 105, 99, 101, 110, 115, 101, 100, 32, 117,
    110, 100, 101, 114, 32, 116, 104, 101, 32, 83, 73, 76, 32, 79, 112, 101,
    110, 32, 70, 111, 110, 116, 32, 76, 105, 99, 101, 110, 115, 101, 44, 32,
    86, 101, 114, 115, 105, 111, 110, 32, 49, 46, 49, 46>>

\* "http://scripts.sil.org/OFL"
OFL_URL ==
  <<104, 116, 116, 112, 58, 47, 47, 115, 99, 114, 105, 112, 116, 115, 46, 115,
    105, 108, 46, 111, 114, 103, 47, 79, 70, 76>>

\* "This Font Software is licensed under the Apache License, Version 2.0."
APACHE_TEXT ==
  <<84, 104, 105, 115, 32, 70, 111, 110, 116, 32, 83, 111, 102, 116, 119, 97,
    114, 101, 32, 105, 115, 32, 108, 105, 99, 101, 110, 115, 101, 100, 32, 117,
    110, 100, 101, 114, 32, 116, 104, 101, 32, 65, 112, 97, 99, 104, 101, 32,
    76, 105, 99, 101, 110, 115, 101, 44, 32, 86, 101, 114, 115, 105, 111, 110,
    32, 50, 46, 48, 46>>

\* "http://www.apache.org/licenses/LICENSE-2.0"
APACHE_URL ==
  <<104, 116, 116, 112, 58, 47, 47, 119, 119, 119, 46, 97, 112, 97, 99, 104,
    101, 46, 111, 114, 103, 47, 108, 105, 99, 101, 110, 115, 101, 115, 47, 76,
    73, 67, 69, 78, 83, 69, 45, 50, 46, 48>>

\* "This Font Software is licensed under the MIT License."
MIT_TEXT ==
  <<84, 104, 105, 115, 32, 70, 111, 110, 116, 32, 83, 111, 102, 116, 119, 97,
    114, 101, 32, 105, 115, 32, 108, 105, 99, 101, 110, 115, 101, 100, 32, 117,
    110, 100, 101, 114, 32, 116, 104, 101, 32, 77, 73, 84, 32, 76, 105, 99,
    101, 110, 115, 101, 46>>

\* "https://opensource.org/licenses/MIT"
MIT_URL ==
  <<104, 116, 116, 112, 115, 58, 47, 47, 111, 112, 101, 110, 115, 111, 117,
    114, 99, 101, 46, 111, 114, 103, 47, 108, 105, 99, 101, 110, 115, 101, 115,
    47, 77, 73, 84>>

\* LICENSE_INFO: the pinned pair of each predefined license (none for Custom).
LICENSE_INFO ==
  [license_type \in {OFL, Apache, MIT} |->
     CASE license_type = OFL    -> [text |-> OFL_TEXT, url |-> OFL_URL]
       [] license_type = Apache -> [text |-> APACHE_TEXT, url |-> APACHE_URL]
       [] license_type = MIT    -> [text |-> MIT_TEXT, url |-> MIT_URL]]

\* The name IDs that remain after processing.
ALLOWED_NAME_IDS == {0, 1, 2, 3, 4, 5, 6, 7, 8, 9, 16, 17, 13, 14}

(***************************************************************************)
(* Text operations.                                                        *)
(***************************************************************************)
\* s.replace(' ', '')
RECURSIVE StripSpaces(_)
StripSpaces(s) ==
  IF s = <<>> THEN <<>>
  ELSE IF Head(s) = 32 THEN StripSpaces(Tail(s))
       ELSE <<Head(s)>> \o StripSpaces(Tail(s))

\* s.lower(), on the ASCII letters.
Lower(s) == [i \in DOMAIN s |-> IF s[i] \in 65..90 THEN s[i] + 32 ELSE s[i]]

\* s.upper(), on the ASCII letters.
Upper(s) == [i \in DOMAIN s |-> IF s[i] \in 97..122 THEN s[i] - 32 ELSE s[i]]

(***************************************************************************)
(* The codecs of the font library that the modelled records use.           *)
(***************************************************************************)
\* NameRecord.getEncoding(): the Python codec of a (platform, encoding,
\* language) variant; "ascii" is the default for a variant without a codec.
getEncoding(r) ==
  CASE r.platformID = 0 -> "utf_16_be"
    [] r.platformID = 3 /\ r.platEncID \in {0, 1, 10} -> "utf_16_be"
    [] r.platformID = 2 /\ r.platEncID = 1 -> "utf_16_be"
    [] r.platformID = 1 /\ r.platEncID = 0 /\ r.langID = 0 -> "mac_roman"
    [] OTHER -> "ascii"

\* One character to bytes; CodecError when the codec has no byte for it.
\* mac_roman is modelled on ASCII and e-acute (U+00E9 <-> 0x8E).
EncodeChar(c, encoding) ==
  CASE encoding = "utf_16_be" ->
         IF c < 65536 /\ c \notin 55296..57343
         THEN <<c \div 256, c % 256>> ELSE CodecError
    [] encoding = "mac_roman" ->
         IF c < 128 THEN <<c>> ELSE IF c = 233 THEN <<142>> ELSE CodecError
    [] OTHER -> IF c < 128 THEN <<c>> ELSE CodecError

\* text.encode(encoding): the bytes, or CodecError (UnicodeEncodeError).
RECURSIVE Encode(_, _)
Encode(text, encoding) ==
  IF text = <<>> THEN <<>>
  ELSE LET h == EncodeChar(Head(text), encoding)
           t == Encode(Tail(text), encoding)
       IN IF h = CodecError \/ t = CodecError THEN CodecError ELSE h \o t

\* bytes.decode(encoding): the text, or CodecError (UnicodeDecodeError).
RECURSIVE Decode(_, _)
Decode(bytes, encoding) ==
  IF bytes = <<>> THEN <<>>
  ELSE IF encoding = "utf_16_be"
  THEN IF Len(bytes) = 1 THEN CodecError
       ELSE LET u == bytes[1] * 256 + bytes[2]
                t == Decode(SubSeq(bytes, 3, Len(bytes)), encoding)
            IN IF u \in 55296..57343 \/ t = CodecError
               THEN CodecError ELSE <<u>> \o t
  ELSE LET b == Head(bytes)
           c == IF b < 128 THEN b
                ELSE IF encoding = "mac_roman" /\ b = 142 THEN 233 ELSE -1
           t == Decode(Tail(bytes), encoding)
       IN IF c = -1 \/ t = CodecError THEN CodecError ELSE <<c>> \o t

\* isascii of NameRecord.toUnicode.
isascii(b) == (b >= 32 /\ b <= 126) \/ b \in {9, 10, 13}

\* toUnicode's recovery of UTF-16 byte strings with an odd number of bytes.
RecoverOdd(s) ==
  IF s[Len(s)] = 0 THEN SubSeq(s, 1, Len(s) - 1)
  ELSE IF \A i \in DOMAIN s : IF i % 2 = 0 THEN s[i] = 0 ELSE isascii(s[i])
  THEN <<0>> \o s
  ELSE IF s[1] = 0 /\ \A i \in 2..Len(s) : isascii(s[i])
  THEN [i \in 1..(2 * (Len(s) - 1)) |-> IF i % 2 = 1 THEN 0 ELSE s[(i \div 2) + 1]]
  ELSE s

\* toUnicode's last step: a decoded text that still looks like UTF-16BE
\* (NUL, ASCII, NUL, ASCII, ...) is narrowed to its ASCII characters.
FixDoubleEncoding(text) ==
  IF \A i \in DOMAIN text : IF i % 2 = 1 THEN text[i] = 0 ELSE isascii(text[i])
  THEN [i \in 1..(Len(text) \div 2) |-> text[2 * i]]
  ELSE text

\* record.toUnicode(): the text of a record, or CodecError when it raises.
toUnicode(r) ==
  LET encoding == getEncoding(r)
      raw == IF r.string.t = "bytes" /\ encoding = "utf_16_be"
                /\ Len(r.string.v) % 2 = 1
             THEN RecoverOdd(r.string.v) ELSE r.string.v
      text == IF r.string.t = "bytes" THEN Decode(raw, encoding) ELSE raw
  IN IF text = CodecError THEN CodecError ELSE FixDoubleEncoding(text)

\* A bytes value and a str value of record.string.
Bytes(b) == [t |-> "bytes", v |-> b]

Str(s) == [t |-> "str", v |-> s]

\* makeName(string, nameID, platformID, platEncID, langID)
makeName(string, nameID, platformID, platEncID, langID) ==
  [nameID |-> nameID, platformID |-> platformID, platEncID |-> platEncID,
   langID |-> langID, string |-> Str(string)]

\* name_table.setName(string, nameID, platformID, platEncID, langID): the
\* record of that variant gets the string, or a new record is appended.
setName(names, string, nameID, platformID, platEncID, langID) ==
  LET same(r) == /\ r.nameID = nameID /\ r.platformID = platformID
                 /\ r.platEncID = platEncID /\ r.langID = langID
      hits == {i \in DOMAIN names : same(names[i])}
  IN IF hits # {}
     THEN LET i == CHOOSE j \in hits : \A k \in hits : j <= k
          IN [names EXCEPT ![i].string = Str(string)]
     ELSE Append(names, makeName(string, nameID, platformID, platEncID, langID))

(***************************************************************************)
(* update_font_metadata                                                    *)
(***************************************************************************)
\* The (platformID, platEncID, langID) update_field writes: 3, 1, 0x409.
CanonicalVariant == <<3, 1, 1033>>

\* InsertsValue that lets "" through.
InsertsEmptyValue(value) == value # None

\* Whether update_field inserts a record for the value.
InsertsValue(value) == value # None /\ value # <<>>

\* update_field(name_id, value): remove the records of name_id, then set one
\* record when the value is neither None nor "".
update_field(names, name_id, value) ==
  LET removed == SelectSeq(names, LAMBDA r : r.nameID # name_id)
  IN IF InsertsValue(value)
     THEN setName(removed, value, name_id, CanonicalVariant[1],
                  CanonicalVariant[2], CanonicalVariant[3])
     ELSE removed

\* The last text a scan of the records of name_id decodes, else the default.
RECURSIVE LastDecoded(_, _, _)
LastDecoded(names, name_id, default) ==
  IF names = <<>> THEN default
  ELSE LET r == names[Len(names)]
           rest == SubSeq(names, 1, Len(names) - 1)
       IN IF r.nameID = name_id /\ toUnicode(r) # CodecError
          THEN toUnicode(r)
          ELSE LastDecoded(rest, name_id, default)

\* original_subfamily after the first loop.
original_subfamily(names) == LastDecoded(names, 2, REGULAR)

\* version_string after the first loop.
version_string(names) == LastDecoded(names, 5, None)

\* new_subfamily = config.subfamily if config.subfamily else original_subfamily
new_subfamily(names, config) ==
  IF Truthy(config.subfamily) THEN config.subfamily
  ELSE original_subfamily(names)

\* A loop "for record in names: if record.nameID in ids: record.string =
\* text.encode(record.getEncoding())": the records before the first one whose
\* codec cannot encode the text are rewritten, and then the loop raises.
EncodeLoop(names, ids, text) ==
  LET fails(i) == /\ names[i].nameID \in ids
                  /\ Encode(text, getEncoding(names[i])) = CodecError
      bad == {i \in DOMAIN names : fails(i)}
      stop == IF bad = {} THEN Len(names) + 1
              ELSE CHOOSE i \in bad : \A j \in bad : i <= j
  IN [names |-> [i \in DOMAIN names |->
                   IF names[i].nameID \in ids /\ i < stop
                   THEN [names[i] EXCEPT
                           !.string = Bytes(Encode(text, getEncoding(names[i])))]
                   ELSE names[i]],
      raised |-> bad # {}]

\* UpdateFamily by removing the records and setting one canonical record.
UpdateFamilyReinserts(names, config) ==
  [names |-> update_field(update_field(names, 1, config.new_family),
                          16, config.new_family),
   raised |-> FALSE]

\* Lines 146-150: Family (1) and Typographic Family (16) get new_family.
UpdateFamily(names, config) == EncodeLoop(names, {1, 16}, config.new_family)

\* UpdateSubfamily that sets the record without removing the other variants.
UpdateSubfamilyKeepsVariants(names, config, subfamily) ==
  IF config.subfamily # None
  THEN setName(names, subfamily, 2, CanonicalVariant[1], CanonicalVariant[2],
               CanonicalVariant[3])
  ELSE names

\* Lines 152-157: Subfamily (2) is rewritten when config.subfamily is given.
UpdateSubfamily(names, config, subfamily) ==
  IF config.subfamily # None THEN update_field(names, 2, subfamily) ELSE names

\* Lines 159-163: Full Font Name (4).
UpdateFullName(names, config, subfamily) ==
  EncodeLoop(names, {4}, config.new_family \o <<32>> \o subfamily)

\* Lines 165-170: PostScript Name (6).
UpdatePostScriptName(names, config, subfamily) ==
  EncodeLoop(names, {6},
             StripSpaces(config.new_family) \o <<45>> \o StripSpaces(subfamily))

\* UpdateLicense that writes the description and forgets the URL.
UpdateLicenseTextOnly(names, config) ==
  IF config.license_text # None
  THEN update_field(names, 13, config.license_text)
  ELSE IF config.license_type \in DOMAIN LICENSE_INFO
  THEN update_field(names, 13, LICENSE_INFO[config.license_type].text)
  ELSE IF Truthy(config.custom_license)
  THEN update_field(names, 13, config.custom_license)
  ELSE names

\* Lines 172-190: License Description (13) and License URL (14).
UpdateLicense(names, config) ==
  IF config.license_text # None
  THEN update_field(update_field(names, 13, config.license_text),
                    14, config.license_url)
  ELSE IF config.license_type # None
  THEN IF /\ config.license_type = Custom
          /\ Truthy(config.custom_license)
          /\ Truthy(config.custom_license_url)
       THEN update_field(update_field(names, 13, config.custom_license),
                         14, config.custom_license_url)
       ELSE IF config.license_type \in DOMAIN LICENSE_INFO
            THEN LET lic_info == LICENSE_INFO[config.license_type]
                 IN update_field(update_field(names, 13, lic_info.text),
                                 14, lic_info.url)
            ELSE names
  ELSE names

\* UpdateManufacturer that runs the update for None as well.
UpdateManufacturerAlways(names, config) ==
  update_field(names, 8, config.manufacturer)

\* Lines 193-194: Manufacturer (8).
UpdateManufacturer(names, config) ==
  IF config.manufacturer # None
  THEN update_field(names, 8, config.manufacturer) ELSE names

\* Lines 195-196: Designer (9).
UpdateDesigner(names, config) ==
  IF config.designer # None
  THEN update_field(names, 9, config.designer) ELSE names

\* Line 197: Trademark (7).
UpdateTrademark(names, config) == update_field(names, 7, config.trademark)

\* Line 200: Copyright (0).
UpdateCopyright(names, config) == update_field(names, 0, config.copyright_text)

\* RestoreVersion that never sets the version again.
RestoreVersionSkipped(names, version) == names

\* Lines 202-204: the version string found by the first loop is set again.
RestoreVersion(names, version) ==
  IF Truthy(version) THEN update_field(names, 5, version) ELSE names

\* FilterAllowed without the filter.
FilterAllowedKeepsAll(names) == names

\* Lines 206-207: only the allowed name IDs remain.
FilterAllowed(names) == SelectSeq(names, LAMBDA r : r.nameID \in ALLOWED_NAME_IDS)

\* update_font_metadata(font, config): the name table it leaves, and whether
\* it raised (a UnicodeEncodeError of one of its three encoding loops).
update_font_metadata(names, config) ==
  LET subfamily == new_subfamily(names, config)
      version == version_string(names)
      s1 == UpdateFamily(names, config)
      s2 == UpdateSubfamily(s1.names, config, subfamily)
      s3 == UpdateFullName(s2, config, subfamily)
      s4 == UpdatePostScriptName(s3.names, config, subfamily)
      s5 == UpdateLicense(s4.names, config)
      s6 == UpdateManufacturer(s5, config)
      s7 == UpdateDesigner(s6, config)
      s8 == UpdateTrademark(s7, config)
      s9 == UpdateCopyright(s8, config)
      s10 == RestoreVersion(s9, version)
  IN CASE s1.raised -> s1
       [] s3.raised -> s3
       [] s4.raised -> s4
       [] OTHER -> [names |-> FilterAllowed(s10), raised |-> FALSE]

(***************************************************************************)
(* The resolution of a FontToolConfig.                                     *)
(***************************************************************************)
\* datetime.datetime.now().year, as text: "2026".
current_year == <<50, 48, 50, 54>>

\* "Copyright (c) " and ". All Rights Reserved." of get_copyright_notice.
COPYRIGHT_PREFIX == <<67, 111, 112, 121, 114, 105, 103, 104, 116, 32, 169, 32>>

COPYRIGHT_SUFFIX ==
  <<46, 32, 65, 108, 108, 32, 82, 105, 103, 104, 116, 115, 32, 82, 101, 115,
    101, 114, 118, 101, 100, 46>>

\* get_copyright_notice(manufacturer)
get_copyright_notice(manufacturer) ==
  IF Truthy(manufacturer)
  THEN COPYRIGHT_PREFIX \o current_year \o <<32>> \o manufacturer \o COPYRIGHT_SUFFIX
  ELSE COPYRIGHT_PREFIX \o current_year \o COPYRIGHT_SUFFIX

\* FontToolConfig(...), without the two file paths.
FontToolConfig(new_family, subfamily, license_type, custom_license, custom_license_url, license_text, license_url, manufacturer, designer, trademark, copyright_text) ==
  [new_family |-> new_family, subfamily |-> subfamily,
   license_type |-> license_type, custom_license |-> custom_license,
   custom_license_url |-> custom_license_url, license_text |-> license_text,
   license_url |-> license_url, manufacturer |-> manufacturer,
   designer |-> designer, trademark |-> trademark,
   copyright_text |-> copyright_text]

\* The value of the config variable before a configuration is resolved.
NoConfig ==
  FontToolConfig(None, None, None, None, None, None, None, None, None, None, None)

\* process_font's "Prepare license text/URL": whether it raises typer.Exit.
CustomLicenseRejected(argv) ==
  argv.license = Custom
  /\ ~(Truthy(argv.custom_license) /\ Truthy(argv.custom_license_url))

\* process_font, up to its call of process_font_with_config: the exit with
\* code 1, or the FontToolConfig it builds from the command line.
process_font(argv) ==
  LET lic_text == IF argv.license = Custom THEN argv.custom_license
                  ELSE IF argv.license \in DOMAIN LICENSE_INFO
                       THEN LICENSE_INFO[argv.license].text ELSE <<>>
      lic_url == IF argv.license = Custom THEN argv.custom_license_url
                 ELSE IF argv.license \in DOMAIN LICENSE_INFO
                      THEN LICENSE_INFO[argv.license].url ELSE <<>>
      copyright_text ==
        IF argv.copyright_text = None /\ Truthy(argv.manufacturer)
        THEN get_copyright_notice(argv.manufacturer)
        ELSE argv.copyright_text
  IN IF CustomLicenseRejected(argv)
     THEN [exit |-> TRUE, config |-> NoConfig]
     ELSE [exit |-> FALSE,
           config |-> FontToolConfig(argv.new_family, argv.subfamily,
                        argv.license, argv.custom_license,
                        argv.custom_license_url, lic_text, lic_url,
                        argv.manufacturer, argv.designer, argv.trademark,
                        copyright_text)]

\* get_name_value(name_id) of interactive_mode: the text of the first record
\* of name_id that decodes, else None.
RECURSIVE get_name_value(_, _)
get_name_value(names, name_id) ==
  IF names = <<>> THEN None
  ELSE IF Head(names).nameID = name_id /\ toUnicode(Head(names)) # CodecError
       THEN toUnicode(Head(names))
       ELSE get_name_value(Tail(names), name_id)

\* typer.prompt(text, default=default): None stands for the Enter key alone.
Prompt(answer, default) == IF answer = None THEN default ELSE answer

\* LicenseType(lic_input.upper()), with "Defaulting to OFL" on ValueError.
ParseLicenseType(lic_input) ==
  IF Upper(lic_input) \in LicenseType THEN Upper(lic_input) ELSE OFL

\* A prompt where 'keep' (in any case) stands for the existing value.
KeepOr(value, existing) == IF Lower(value) = KEEP THEN existing ELSE value

\* interactive_mode(): the FontToolConfig built from the answers.
interactive_mode(answers, names) ==
  LET existing_family == OrElse(get_name_value(names, 1), UNKNOWN_FAMILY)
      existing_manufacturer == OrElse(get_name_value(names, 8), <<>>)
      existing_designer == OrElse(get_name_value(names, 9), <<>>)
      existing_trademark == OrElse(get_name_value(names, 7), <<>>)
      existing_license_text == OrElse(get_name_value(names, 13), <<>>)
      existing_license_url == OrElse(get_name_value(names, 14), <<>>)
      existing_copyright == OrElse(get_name_value(names, 0), <<>>)
      new_family == Prompt(answers.new_family, existing_family)
      subfamily_input == Prompt(answers.subfamily, <<>>)
      subfamily == IF subfamily_input # <<>> THEN subfamily_input ELSE None
      lic_input == Prompt(answers.license, OFL)
      keep == Lower(lic_input) = KEEP
      blank == ~keep /\ lic_input = <<>>
      license_type == IF keep \/ blank THEN None ELSE ParseLicenseType(lic_input)
      custom == ~keep /\ ~blank /\ license_type = Custom
      custom_license ==
        IF custom
        THEN KeepOr(Prompt(answers.custom_license, <<>>), existing_license_text)
        ELSE None
      custom_license_url ==
        IF custom
        THEN KeepOr(Prompt(answers.custom_license_url, <<>>), existing_license_url)
        ELSE None
      license_text ==
        CASE keep -> existing_license_text
          [] blank -> <<>>
          [] custom -> None
          [] OTHER -> IF license_type \in DOMAIN LICENSE_INFO
                      THEN LICENSE_INFO[license_type].text ELSE <<>>
      license_url ==
        CASE keep -> existing_license_url
          [] blank -> <<>>
          [] custom -> None
          [] OTHER -> IF license_type \in DOMAIN LICENSE_INFO
                      THEN LICENSE_INFO[license_type].url ELSE <<>>
      manufacturer == Prompt(answers.manufacturer, existing_manufacturer)
      designer == Prompt(answers.designer, existing_designer)
      trademark == KeepOr(Prompt(answers.trademark, <<>>), existing_trademark)
      c_text == KeepOr(Prompt(answers.copyright_text, <<>>), existing_copyright)
  IN FontToolConfig(new_family, subfamily, license_type, custom_license,
                    custom_license_url, license_text, license_url,
                    manufacturer, designer, trademark, c_text)

\* A direct caller's FontToolConfig(...).
DirectConfig(given) ==
  FontToolConfig(given.new_family, given.subfamily, given.license,
                 given.custom_license, given.custom_license_url,
                 given.license_text, given.license_url, given.manufacturer,
                 given.designer, given.trademark, given.copyright_text)

(***************************************************************************)
(* The inputs: the name table of the input font and what the user gives.   *)
(* Each input class varies the records and the configuration values of one *)
(* group of name IDs around the defaults of the entry point.               *)
(***************************************************************************)
\* The most records a modelled input table holds.
MaxRecords == 3

\* Windows / Unicode BMP / US English, Macintosh / Roman / English and
\* ISO / 7-bit ASCII: codecs utf_16_be, mac_roman and ascii.
WIN == <<3, 1, 1033>>

MAC == <<1, 0, 0>>

ISO == <<2, 0, 0>>

\* A record as read from the font file.
Rec(nameID, variant, bytes) ==
  [nameID |-> nameID, platformID |-> variant[1], platEncID |-> variant[2],
   langID |-> variant[3], string |-> Bytes(bytes)]

\* The records of the given name IDs in the given shapes (variant, bytes).
Recs(ids, shapes) == {Rec(id, sh[1], sh[2]) : id \in ids, sh \in shapes}

\* Shapes: "R" and "" in UTF-16BE, e-acute in MacRoman, "I" in ASCII, and two
\* byte strings their codec rejects (a lone surrogate, a byte above 127).
WinR == <<WIN, <<0, 82>>>>

WinEmpty == <<WIN, <<>>>>

WinBad == <<WIN, <<216, 0>>>>

MacE == <<MAC, <<142>>>>

IsoI == <<ISO, <<73>>>>

IsoBad == <<ISO, <<233>>>>

\* The tables of at most MaxRecords records over a set of records.
Tables(records) == UNION {[1..n -> records] : n \in 0..MaxRecords}

\* Texts a user gives: "F", "F G", e-acute, "B", "X Y", "T", "U".
F == <<70>>

FG == <<70, 32, 71>>

EAcute == <<233>>

B == <<66>>

XY == <<88, 32, 89>>

T == <<84>>

U == <<85>>

\* The command line with only the required argument (--license defaults to
\* OFL), a FontToolConfig with only the required field, and the prompts all
\* answered with the Enter key.
BaseArgv ==
  [mode |-> "cli", new_family |-> F, subfamily |-> None, license |-> OFL,
   custom_license |-> None, custom_license_url |-> None,
   license_text |-> None, license_url |-> None, manufacturer |-> None,
   designer |-> None, trademark |-> None, copyright_text |-> None]

BaseGiven == [BaseArgv EXCEPT !.mode = "direct", !.license = None]

BaseAnswers ==
  [BaseArgv EXCEPT !.mode = "interactive", !.new_family = None, !.license = None]

\* An optional value: not given, given empty, given.
Tri == {None, <<>>, T}

\* An answer to a 'keep' prompt: Enter, a text, keep.
TriAnswer == {None, T, KEEP}

\* Trademark (7) and Copyright (0); the manufacturer decides the default
\* copyright notice of the command line.
TrademarkCopyright ==
  [records |-> Recs({0, 7}, {WinR, MacE}),
   inputs |->
     {[b EXCEPT !.trademark = t, !.copyright_text = c, !.manufacturer = m] :
        b \in {BaseArgv, BaseGiven}, t \in Tri, c \in Tri, m \in {None, T}}
     \cup
     {[BaseAnswers EXCEPT !.trademark = t, !.copyright_text = c] :
        t \in TriAnswer, c \in TriAnswer}]

\* Manufacturer (8) and Designer (9).
ManufacturerDesigner ==
  [records |-> Recs({8, 9}, {WinR, MacE}),
   inputs |->
     {[b EXCEPT !.manufacturer = m, !.designer = d] :
        b \in {BaseArgv, BaseGiven}, m \in Tri, d \in Tri}
     \cup
     {[BaseAnswers EXCEPT !.manufacturer = m, !.designer = d] :
        m \in {None, T}, d \in {None, T}}]

\* Version (5), with a record outside the allowed set.
VersionField ==
  [records |-> Recs({5}, {WinR, WinEmpty, MacE, WinBad}) \cup Recs({18}, {WinR}),
   inputs |-> {BaseArgv, BaseGiven, BaseAnswers}]

\* Subfamily (2), Full Font Name (4), PostScript Name (6).
DerivedNames ==
  [records |-> Recs({2}, {WinR, WinEmpty, IsoBad}) \cup Recs({4, 6}, {WinR, IsoI}),
   inputs |->
     {[b EXCEPT !.new_family = f, !.subfamily = s] :
        b \in {BaseArgv, BaseGiven}, f \in {F, FG, EAcute},
        s \in {None, <<>>, B, XY}}
     \cup
     {[BaseAnswers EXCEPT !.new_family = f, !.subfamily = s] :
        f \in {None, FG, EAcute}, s \in {None, B, XY}}]

\* License Description (13), License URL (14).
LicenseFields ==
  [records |-> Recs({13, 14}, {WinR, MacE}),
   inputs |->
     {[b EXCEPT !.license = l, !.custom_license = t, !.custom_license_url = u] :
        b \in {BaseArgv, BaseGiven}, l \in LicenseType, t \in Tri,
        u \in {None, <<>>, U}}
     \cup
     {[BaseGiven EXCEPT !.license = l, !.license_text = t, !.license_url = u] :
        l \in {None, OFL, Custom}, t \in Tri, u \in {None, <<>>, U}}
     \cup
     {[BaseAnswers EXCEPT !.license = l] :
        l \in {None, KEEP, Upper(KEEP), OFL, Apache, MIT, Custom, Lower(MIT)}}]

\* Family (1), Typographic Family (16), allowed IDs no step writes (3, 17)
\* and IDs outside the allowed set (10, 18).
FamilyAndOthers ==
  [records |-> Recs({1}, {WinR, MacE, IsoI}) \cup Recs({16, 3, 17, 10, 18}, {WinR}),
   inputs |->
     {[b EXCEPT !.new_family = f] :
        b \in {BaseArgv, BaseGiven}, f \in {F, FG, EAcute}}
     \cup
     {[BaseAnswers EXCEPT !.new_family = f] : f \in {None, FG, EAcute}}]

InputClasses ==
  {TrademarkCopyright, ManufacturerDesigner, VersionField, DerivedNames,
   LicenseFields, FamilyAndOthers}
(***************************************************************************)
(* The program.                                                            *)
(***************************************************************************)
VARIABLES
  names0,   \* the name table of the input font file
  input,    \* the command line, the answers to the prompts or the given config
  config,   \* the FontToolConfig
  names,    \* font["name"].names of the font being processed
  names1,   \* names as the first update_font_metadata left it
  pc,       \* where the run is
  saved     \* whether font.save wrote the output file

vars == <<names0, input, config, names, names1, pc, saved>>

Init ==
  /\ \E class \in InputClasses :
       /\ names0 \in Tables(class.records)
       /\ input \in class.inputs
  /\ config = NoConfig
  /\ names = names0
  /\ names1 = <<>>
  /\ pc = "start"
  /\ saved = FALSE

\* process_font: typer.Exit(code=1), or the config for process_font_with_config.
ProcessFont ==
  /\ pc = "start" /\ input.mode = "cli"
  /\ LET res == process_font(input)
     IN /\ config' = res.config
        /\ pc' = IF res.exit THEN "exit" ELSE "config"
  /\ UNCHANGED <<names0, input, names, names1, saved>>

\* interactive_mode, called when no arguments are passed.
InteractiveMode ==
  /\ pc = "start" /\ input.mode = "interactive"
  /\ config' = interactive_mode(input, names0)
  /\ pc' = "config"
  /\ UNCHANGED <<names0, input, names, names1, saved>>

\* process_font_with_config: open the font, update its metadata, save it.
\* An exception of update_font_metadata ends the run before font.save.  The
\* font file is taken to open and to save (no I/O error of TTFont).
ProcessFontWithConfig ==
  /\ pc = "config"
  /\ LET res == update_font_metadata(names0, config)
     IN /\ names' = res.names
        /\ names1' = res.names
        /\ pc' = IF res.raised THEN "raised" ELSE "saved"
        /\ saved' = ~res.raised
  /\ UNCHANGED <<names0, input, config>>

\* update_font_metadata(font, config) called with a config built directly.
UpdateFontMetadata ==
  /\ pc = "start" /\ input.mode = "direct"
  /\ config' = DirectConfig(input)
  /\ LET res == update_font_metadata(names, config')
     IN /\ names' = res.names
        /\ names1' = res.names
        /\ pc' = IF res.raised THEN "raised" ELSE "updated"
  /\ UNCHANGED <<names0, input, saved>>

\* update_font_metadata applied once more, with the same config, to the
\* table it produced.
UpdateAgain ==
  /\ pc \in {"updated", "saved"}
  /\ LET res == update_font_metadata(names, config)
     IN /\ names' = res.names
        /\ pc' = IF res.raised THEN "raised_again" ELSE "again"
  /\ UNCHANGED <<names0, input, config, names1, saved>>

Next ==
  \/ ProcessFont
  \/ InteractiveMode
  \/ ProcessFontWithConfig
  \/ UpdateFontMetadata
  \/ UpdateAgain

Spec == Init /\ [][Next]_vars

\* update_font_metadata has returned (once).
Returned == pc \in {"updated", "saved"}

(***************************************************************************)
(* The claims.                                                             *)
(***************************************************************************)
\* The records of one name ID, in table order.
Of(tbl, id) == SelectSeq(tbl, LAMBDA r : r.nameID = id)

\* The record a rewrite leaves: platform 3, encoding 1, language 0x409.
Written(id, text) ==
  [nameID |-> id, platformID |-> 3, platEncID |-> 1, langID |-> 1033,
   string |-> Str(text)]

\* The positions of the records of a name ID whose text decodes.
Decodable(tbl, id) ==
  {i \in DOMAIN tbl : tbl[i].nameID = id /\ toUnicode(tbl[i]) # CodecError}

\* The text of the last record of a name ID that decodes (one must exist).
LastText(tbl, id) ==
  toUnicode(tbl[CHOOSE i \in Decodable(tbl, id) :
                  \A j \in Decodable(tbl, id) : j <= i])

\* C1: whitelist closure. Whenever update_font_metadata has returned, every
\* record of the table has a name ID in {0..9, 13, 14, 16, 17}.
C1_WhitelistClosure ==
  pc \in {"updated", "saved", "again"} =>
    \A i \in DOMAIN names :
      names[i].nameID \in {0, 1, 2, 3, 4, 5, 6, 7, 8, 9, 13, 14, 16, 17}

\* C1 witness: a table with a record outside the whitelist and one inside it
\* has been processed, and the record inside is still there.
C1_Witness ==
  /\ Returned
  /\ \E i \in DOMAIN names0 : names0[i].nameID = 18
  /\ \E i \in DOMAIN names0 : names0[i].nameID = 3
  /\ Of(names, 3) # <<>>

\* C2 (as claimed): with config.trademark (config.copyright_text) None, the
\* Trademark (Copyright) records after update_font_metadata are those of the
\* input.
C2_AbsentPreserves ==
  Returned =>
    /\ config.trademark = None => Of(names, 7) = Of(names0, 7)
    /\ config.copyright_text = None => Of(names, 0) = Of(names0, 0)

\* C3 (as claimed): when some Version record of the input decodes, the table
\* after update_font_metadata has exactly one Version record and its text is
\* the text of a Version record of the input.
C3_VersionPreserved ==
  (Returned /\ Decodable(names0, 5) # {}) =>
    /\ Len(Of(names, 5)) = 1
    /\ \E i \in Decodable(names0, 5) :
         toUnicode(Of(names, 5)[1]) = toUnicode(names0[i])

\* C3 (amended): when the last Version record of the input that decodes has a
\* non-empty text, the table after update_font_metadata has exactly one
\* Version record, at the canonical variant, with that text; otherwise the
\* Version records are those of the input.
C3_VersionRestored ==
  Returned =>
    IF Decodable(names0, 5) # {} /\ LastText(names0, 5) # <<>>
    THEN Of(names, 5) = <<Written(5, LastText(names0, 5))>>
    ELSE Of(names, 5) = Of(names0, 5)

\* C3 witness: an input with two Version records of different texts, of which
\* the output keeps one.
C3_Witness ==
  /\ Returned
  /\ \E i, j \in Decodable(names0, 5) :
       i < j /\ toUnicode(names0[i]) # toUnicode(names0[j])
  /\ Len(Of(names, 5)) = 1

\* C7 (as claimed): update_font_metadata applied again with the same config
\* to its own output returns that output unchanged.
C7_Idempotent ==
  /\ pc = "again" => names = names1
  /\ pc # "raised_again"
\* The subfamily texts C4 allows in the derived names: the configured one if
\* it is present, else a Subfamily text of the input ("Regular" if none).
C4_EffectiveSubfamily ==
  IF config.subfamily # None THEN {config.subfamily}
  ELSE IF Decodable(names0, 2) = {} THEN {REGULAR}
  ELSE {toUnicode(names0[i]) : i \in Decodable(names0, 2)}

\* C4 (as claimed): after update_font_metadata every Full Font Name record
\* reads "{new_family} {effective_subfamily}" and every PostScript Name record
\* "{new_family without spaces}-{effective_subfamily without spaces}".
C4_DerivedNames ==
  Returned =>
    \E eff \in C4_EffectiveSubfamily :
      /\ \A i \in DOMAIN names : names[i].nameID = 4 =>
           toUnicode(names[i]) = config.new_family \o <<32>> \o eff
      /\ \A i \in DOMAIN names : names[i].nameID = 6 =>
           toUnicode(names[i]) =
             StripSpaces(config.new_family) \o <<45>> \o StripSpaces(eff)

\* The license selection of a run is l: --license l on the command line, or
\* a config with license_type l and no explicit license_text.
Selected(l) ==
  \/ input.mode = "cli" /\ input.license = l
  \/ input.mode = "direct" /\ input.license = l /\ input.license_text = None

IncompleteCustom ==
  \/ /\ Selected(Custom)
     /\ \/ input.custom_license \in {None, <<>>}
        \/ input.custom_license_url \in {None, <<>>}
  \/ input.mode = "interactive" /\ input.license = Custom

\* C6 (as claimed): a run with an incomplete Custom selection never gets past
\* update_font_metadata, never changes the name table and never saves.
C6_IncompleteCustomRejected ==
  IncompleteCustom =>
    /\ pc \notin {"updated", "saved", "again"}
    /\ names = names0
    /\ saved = FALSE

\* The four fields of C8 and C9 with their name IDs.
C8_Fields ==
  {<<7, config.trademark>>, <<0, config.copyright_text>>,
   <<8, config.manufacturer>>, <<9, config.designer>>}

\* C8: after update_font_metadata, a field of Trademark (7), Copyright (0),
\* Manufacturer (8), Designer (9) whose config value is "" has no record, and
\* one whose config value is a non-empty text has exactly one record, with
\* that text at platform 3, encoding 1, language 0x409; no record of these
\* IDs was written with an empty string.
C8_SetAndRemove ==
  Returned =>
    \A f \in C8_Fields :
      /\ f[2] = <<>> => Of(names, f[1]) = <<>>
      /\ f[2] \notin {None, <<>>} => Of(names, f[1]) = <<Written(f[1], f[2])>>
      /\ \A i \in DOMAIN names :
           names[i].nameID = f[1] /\ names[i].string.t = "str" =>
             names[i].string.v # <<>>

\* C8 witness: a Trademark with two variants was removed by "" while a
\* Copyright was set to a text.
C8_Witness ==
  /\ Returned
  /\ Len(Of(names0, 7)) >= 2
  /\ config.trademark = <<>>
  /\ Of(names0, 0) # <<>>
  /\ config.copyright_text = T

\* C9: after update_font_metadata, with config.manufacturer None the
\* Manufacturer (8) records are those of the input, and with config.designer
\* None the Designer (9) records are those of the input.
C9_AbsentIsNoOp ==
  Returned =>
    /\ config.manufacturer = None => Of(names, 8) = Of(names0, 8)
    /\ config.designer = None => Of(names, 9) = Of(names0, 9)

\* C9 witness: the Manufacturer records of the input were kept while the
\* Designer records were replaced.
C9_Witness ==
  /\ Returned
  /\ config.manufacturer = None
  /\ Len(Of(names0, 8)) >= 2
  /\ config.designer = T
  /\ Of(names0, 9) # <<>>
  /\ Of(names, 9) # Of(names0, 9)

C10_Snapshot ==
  IF Decodable(names0, 2) = {} THEN REGULAR ELSE LastText(names0, 2)

VariantOf(r) == <<r.nameID, r.platformID, r.platEncID, r.langID>>

\* The variants of the Family (1) and Typographic Family (16) records of a
\* table, in table order.
FamilyVariants(tbl) ==
  LET fam == SelectSeq(tbl, LAMBDA r : r.nameID \in {1, 16})
  IN [i \in DOMAIN fam |-> VariantOf(fam[i])]

\* C11: after update_font_metadata every Family (1) and Typographic Family
\* (16) record reads new_family, and the records of these two name IDs have
\* the same (name ID, platform, encoding, language) variants as in the input,
\* in the same number and order.
C11_FamilyRenamedInPlace ==
  Returned =>
    /\ \A i \in DOMAIN names :
         names[i].nameID \in {1, 16} => toUnicode(names[i]) = config.new_family
    /\ FamilyVariants(names) = FamilyVariants(names0)

\* C11 witness: a font with a Windows and a Macintosh Family record and a
\* Typographic Family record was renamed to a name outside ASCII.
C11_Witness ==
  /\ Returned
  /\ config.new_family = EAcute
  /\ \E i \in DOMAIN names0 : VariantOf(names0[i]) = <<1, 3, 1, 1033>>
  /\ \E i \in DOMAIN names0 : VariantOf(names0[i]) = <<1, 1, 0, 0>>
  /\ \E i \in DOMAIN names0 : names0[i].nameID = 16
  /\ names # names0
====
